---- MODULE Spec2Model ----
(***************************************************************************)
(* Log-skeleton relationship engine (src/components/logic/relationships.py *)
(* and log_skeleton.py) and the endpoint that drives it (src/api/server.py)*)
(*                                                                         *)
(* A noise threshold is a Python float.  It is modelled as the integer     *)
(* numerator k of the rational k / ThresholdDen, and the comparison        *)
(*     res / total_traces >= 1 - noise_threshold                           *)
(* as  res * ThresholdDen >= (ThresholdDen - k) * total_traces  for a      *)
(* positive total_traces.  For the dyadic thresholds of the model (halves) *)
(* both float operations are exact, so the two comparisons agree.          *)
(***************************************************************************)
EXTENDS Integers, Sequences, FiniteSets, TLC

\* ---------------------------------------------------------------- bounds
MaxTraces == 2
MaxTraceLen == 2
ThresholdDen == 2

\* ------------------------------------------------------------- constants
CONCEPT_NAME == "concept:name"
TRACE_START == (CONCEPT_NAME :> "START")
TRACE_END == (CONCEPT_NAME :> "END")

FORALL == "FORALL"
EXISTS == "EXISTS"

NOISE_THRESHOLD_DEFAULT == 0
EXTENDED_TRACE_DEFAULT == FALSE
OK == 200
BAD_REQUEST == 400

\* Python's None / an optional value: <<>> is None, <<v>> is the value v.
None == <<>>
Some(v) == <<v>>

NoError == "ok"

\* The activities that occur in real events of the model's logs.
RealActivities == {"A", "B"}
Sentinels == {"START", "END"}

Event(a) == (CONCEPT_NAME :> a)

\* ----------------------------------------------- activity/trace helpers
activity_concept_name(activity) == activity[CONCEPT_NAME]

is_start(activity) == activity = activity_concept_name(TRACE_START)

is_end(activity) == activity = activity_concept_name(TRACE_END)

is_extension_activity(activity) == is_start(activity) \/ is_end(activity)

is_empty(trace) == Len(trace) = 0

project_trace(trace, elements) ==
    LET res == SelectSeq(trace, LAMBDA ac : activity_concept_name(ac) \in elements)
    IN  [i \in 1..Len(res) |-> activity_concept_name(res[i])]

subtrace_count(trace, subtrace) ==
    IF Len(subtrace) = 0 THEN 0
    ELSE LET tr == [i \in 1..Len(trace) |-> activity_concept_name(trace[i])]
             \* for index in range(len(tr) - len(subtrace) + 1)
             matches == {index \in 0..(Len(tr) - Len(subtrace)) :
                           SubSeq(tr, index + 1, index + Len(subtrace)) = subtrace}
         IN  Cardinality(matches)

\* trace[0] of an empty list raises IndexError
first(trace) == IF Len(trace) = 0 THEN "IndexError" ELSE trace[1]

last(trace) == IF Len(trace) = 0 THEN "IndexError" ELSE trace[Len(trace)]

extended_trace(trace) == <<TRACE_START>> \o trace \o <<TRACE_END>>

\* ------------------------------------------------------ relation classes
PairClasses == {"Always_Before", "AlwaysAfter", "Equivalence",
                "Never_Together", "Next_Both_Ways", "Next_One_Way"}
ForallClasses == {"Always_Before", "AlwaysAfter", "Equivalence", "Never_Together"}
Classes == PairClasses \cup {"Counter"}

\* class X(NonReflexiveRelationship)
NonReflexiveRelationship == {"Never_Together", "Always_Before", "AlwaysAfter"}

DefaultMode_all_forall(cls) == FORALL

\* the default of the mode parameter of the class's __init__
DefaultMode(cls) ==
    IF cls \in {"Next_One_Way", "Next_Both_Ways"} THEN EXISTS ELSE FORALL

NoObject ==
    [cls |-> "none", log |-> <<>>, activities |-> None, noise_threshold |-> 0,
     include_extenstions |-> FALSE, mode |-> FORALL]

\* A log argument is a plain log or a (log, activities) tuple.
PlainLog(l) == [is_tuple |-> FALSE, items |-> <<l>>]
TupleLog(l, acts) == [is_tuple |-> TRUE, items |-> <<l, acts>>]

Relationship_init(cls, log_, all_activities, noise_threshold, mode, include_extenstions) ==
    IF log_.is_tuple
    THEN [err |-> NoError,
          self |-> [cls |-> cls, log |-> log_.items[1],
                    activities |-> log_.items[2],
                    noise_threshold |-> noise_threshold,
                    include_extenstions |-> include_extenstions,
                    mode |-> mode]]
    ELSE IF all_activities = None
         THEN [err |-> "TypeError", self |-> NoObject]
         ELSE [err |-> NoError,
               self |-> [cls |-> cls, log |-> log_.items[1],
                         activities |-> all_activities,
                         noise_threshold |-> noise_threshold,
                         include_extenstions |-> include_extenstions,
                         mode |-> mode]]

\* ------------------------------------------------- per-trace predicates
\* the outcome of a predicate: the exception it raises, or its value
Raises(err) == [err |-> err, value |-> FALSE]
Returns(value) == [err |-> NoError, value |-> value]

Always_Before_matches_first_taken_first(trace, activity1, activity2) ==
    LET projection1 == project_trace(trace, {activity1})
        projection2 == project_trace(trace, {activity1, activity2})
    IN  IF first(projection2) = "IndexError" THEN Raises("IndexError")
        ELSE Returns(first(projection2) = activity2 \/ is_empty(projection1))

\* Always_Before.activity_pair_matches: "or" evaluates self.first(projection2)
\* only when projection1 is not empty
Always_Before_matches(trace, activity1, activity2) ==
    LET projection1 == project_trace(trace, {activity1})
        projection2 == project_trace(trace, {activity1, activity2})
    IN  IF is_empty(projection1) THEN Returns(TRUE)
        ELSE IF first(projection2) = "IndexError" THEN Raises("IndexError")
        ELSE Returns(first(projection2) = activity2)

activity_pair_matches(self, trace, activity1, activity2) ==
    CASE self.cls \in {"Next_One_Way", "Next_Both_Ways"} ->
           subtrace_count(trace, <<activity1, activity2>>) > 0
      [] self.cls = "Never_Together" ->
           LET projection1 == project_trace(trace, {activity1})
               projection2 == project_trace(trace, {activity2})
           IN  is_empty(projection1) \/ is_empty(projection2)
      [] self.cls = "Equivalence" ->
           LET projection1 == project_trace(trace, {activity1})
               projection2 == project_trace(trace, {activity2})
           IN  Len(projection1) = Len(projection2)
      [] self.cls = "Always_Before" ->
           Always_Before_matches(trace, activity1, activity2).value
      [] self.cls = "AlwaysAfter" ->
           IF activity1 = activity2 THEN FALSE
           ELSE LET activity_projection == project_trace(trace, {activity1, activity2})
                IN  \/ ~(\E i \in 1..Len(activity_projection) :
                            activity_projection[i] = activity1)
                    \/ last(activity_projection) = activity2
      [] OTHER -> FALSE   \* Counter never evaluates a pair predicate

apply_to_trace(self, trace, a1, a2) ==
    IF activity_pair_matches(self, trace, a1, a2)
    THEN IF ~self.include_extenstions
            /\ (is_extension_activity(a1) \/ is_extension_activity(a2))
         THEN FALSE
         ELSE TRUE
    ELSE FALSE

\* ------------------------------------------------------ candidate pairs
create_relation_superset_all_reflexive(self) ==
    LET acts == self.activities[1] IN acts \X acts

create_relation_superset_all_non_reflexive(self) ==
    LET acts == self.activities[1] IN {x \in acts \X acts : x[1] # x[2]}

create_relation_superset(self) ==
    LET acts == self.activities[1]
        product == acts \X acts
    IN  IF self.cls \in NonReflexiveRelationship
        THEN {x \in product : x[1] # x[2]}
        ELSE product

\* ---------------------------------------------------------- aggregation
Result(err, pairs, counter) == [err |-> err, pairs |-> pairs, counter |-> counter]

ratio_reached_threshold_as_ratio(res, total_traces, noise_threshold) ==
    res * ThresholdDen >= noise_threshold * total_traces

ratio_reached_strict(res, total_traces, noise_threshold) ==
    res * ThresholdDen > (ThresholdDen - noise_threshold) * total_traces

\* res / total_traces >= (1 - self.noise_threshold), total_traces > 0
ratio_reached(res, total_traces, noise_threshold) ==
    res * ThresholdDen >= (ThresholdDen - noise_threshold) * total_traces

\* the inner loop of the FORALL branch: res += 1 if apply else 0
satisfied_count(self, a1, a2) ==
    LET res[i \in 0..Len(self.log)] ==
            IF i = 0 THEN 0
            ELSE res[i - 1] + (IF apply_to_trace(self, self.log[i], a1, a2) THEN 1 ELSE 0)
    IN  res[Len(self.log)]

Relationship_apply(self) ==
    IF self.activities = None
    THEN Result("TypeError", {}, <<>>)     \* itertools.product(None, None)
    ELSE LET source == create_relation_superset(self)
             total_traces == Len(self.log)
         IN  IF self.mode = FORALL
             THEN IF source # {} /\ total_traces = 0
                  THEN Result("ZeroDivisionError", {}, <<>>)
                  ELSE Result(NoError,
                              {x \in source :
                                 ratio_reached(satisfied_count(self, x[1], x[2]),
                                               total_traces, self.noise_threshold)},
                              <<>>)
             ELSE IF self.mode = EXISTS
             THEN Result(NoError,
                         {x \in source :
                            \E i \in 1..Len(self.log) :
                               apply_to_trace(self, self.log[i], x[1], x[2])},
                         <<>>)
             ELSE Result(NoError, {}, <<>>)

Next_Both_Ways_apply_unfiltered(self) == Relationship_apply(self)

Next_Both_Ways_apply(self) ==
    LET next_one == Relationship_apply(self)
    IN  IF next_one.err # NoError THEN next_one
        ELSE Result(NoError,
                    {tup \in next_one.pairs : <<tup[2], tup[1]>> \in next_one.pairs},
                    <<>>)

py_sum(freq) ==
    LET s[i \in 0..Len(freq)] == IF i = 0 THEN 0 ELSE s[i - 1] + freq[i]
    IN  s[Len(freq)]

py_min(freq) ==
    CHOOSE m \in {freq[i] : i \in 1..Len(freq)} :
        \A i \in 1..Len(freq) : m <= freq[i]

py_max(freq) ==
    CHOOSE m \in {freq[i] : i \in 1..Len(freq)} :
        \A i \in 1..Len(freq) : m >= freq[i]

Counter_apply_first_as_min(self) ==
    IF self.activities = None
    THEN Result("TypeError", {}, <<>>)
    ELSE IF self.activities[1] # {} /\ Len(self.log) = 0
    THEN Result("ValueError", {}, <<>>)
    ELSE Result(NoError, {},
                [act \in self.activities[1] |->
                    LET freq == [i \in 1..Len(self.log) |->
                                   Len(project_trace(self.log[i], {act}))]
                    IN  [sum |-> py_sum(freq), min |-> freq[1], max |-> py_max(freq)]])

Counter_apply(self) ==
    IF self.activities = None
    THEN Result("TypeError", {}, <<>>)     \* for act in None
    ELSE IF self.activities[1] # {} /\ Len(self.log) = 0
    THEN Result("ValueError", {}, <<>>)    \* min([]) of the first activity
    ELSE Result(NoError, {},
                [act \in self.activities[1] |->
                    LET freq == [i \in 1..Len(self.log) |->
                                   Len(project_trace(self.log[i], {act}))]
                    IN  [sum |-> py_sum(freq), min |-> py_min(freq), max |-> py_max(freq)]])

\* method resolution: the apply that an instance of the class runs
apply(self) ==
    CASE self.cls = "Counter" -> Counter_apply(self)
      [] self.cls = "Next_Both_Ways" -> Next_Both_Ways_apply(self)
      [] OTHER -> Relationship_apply(self)

\* --------------------------------------------------------- orchestrator
\* self.relationships, in insertion order, and the name each class maps to
relationships == <<"Always_Before", "AlwaysAfter", "Equivalence",
                   "Never_Together", "Next_Both_Ways", "Next_One_Way", "Counter">>

relationship_name(r) ==
    CASE r = "Always_Before" -> "always_before"
      [] r = "AlwaysAfter" -> "always_after"
      [] r = "Equivalence" -> "equivalence"
      [] r = "Never_Together" -> "never_together"
      [] r = "Next_Both_Ways" -> "next_both_ways"
      [] r = "Next_One_Way" -> "next_one_way"
      [] r = "Counter" -> "counter"

py_min2(x, y) == IF y < x THEN y ELSE x
py_max2(x, y) == IF y > x THEN y ELSE x

NoSkeleton ==
    [log |-> <<>>, all_activities |-> None, include_trace_extensions |-> FALSE,
     noise_threshold |-> 0]

Log_Skeleton_init_upper_only(log_, all_activities, noise_threshold, include_trace_extensions) ==
    [log |-> log_, all_activities |-> all_activities,
     include_trace_extensions |-> include_trace_extensions,
     noise_threshold |-> py_min2(ThresholdDen, noise_threshold)]

Log_Skeleton_init(log_, all_activities, noise_threshold, include_trace_extensions) ==
    [log |-> log_, all_activities |-> all_activities,
     include_trace_extensions |-> include_trace_extensions,
     \* min(1.0, max(0.0, noise_threshold))
     noise_threshold |-> py_min2(ThresholdDen, py_max2(0, noise_threshold))]

NoModel == [err |-> NoError, res |-> <<>>, instances |-> <<>>]

\* res is the dictionary built so far; instances records each r_instance the
\* loop constructed.  An exception leaves the loop at the relation raising it.
Log_Skeleton_collect(c, out) ==
    LET n == Len(relationships)
        failing == {i \in 1..n : out[i].err # NoError}
        \* the iteration at which the loop is left by an exception, or n + 1
        stop == IF failing = {} THEN n + 1
                ELSE CHOOSE i \in failing : \A j \in failing : i <= j
        name == [i \in 1..n |-> relationship_name(relationships[i])]
        at(nm) == CHOOSE i \in 1..n : name[i] = nm
    IN  [err |-> IF stop = n + 1 THEN NoError ELSE out[stop].err,
         res |-> [nm \in {name[i] : i \in 1..(stop - 1)} |->
                    IF relationships[at(nm)] = "Counter"
                    THEN out[at(nm)].counter ELSE out[at(nm)].pairs],
         instances |-> [nm \in {name[i] : i \in {j \in 1..py_min2(stop, n) :
                                                    c[j].err = NoError}} |->
                          c[at(nm)].self]]

Log_Skeleton_apply(self) ==
    LET n == Len(relationships)
        \* r_instance = r(self.log, self.all_activities, self.noise_threshold, ...)
        c == [i \in 1..n |->
                Relationship_init(relationships[i], PlainLog(self.log),
                                  self.all_activities, self.noise_threshold,
                                  DefaultMode(relationships[i]),
                                  self.include_trace_extensions)]
    IN  Log_Skeleton_collect(c, [i \in 1..n |->
                                   IF c[i].err # NoError THEN Result(c[i].err, {}, <<>>)
                                   ELSE apply(c[i].self)])

\* ------------------------------------------------------------- endpoint
PARAMETERS == "parameters"
NOISE_THRESHOLD == "noise-threshold"
EXTENDED_TRACE == "extended-trace"

lower(value) ==
    CASE value = "TRUE" -> "true"
      [] value = "False" -> "false"
      [] OTHER -> value

strToBool(value) ==
    LET b == lower(value)
    IN  IF b = "true" \/ b = "1" THEN TRUE
        ELSE IF b = "false" \/ b = "0" THEN FALSE
        ELSE EXTENDED_TRACE_DEFAULT

\* The importer: the parsed log, each trace extended on request, and the
\* activities that occur in it (with the two sentinels on request).
import_http_query(body, extended_trace_) ==
    [log |-> IF extended_trace_
             THEN [i \in 1..Len(body) |-> extended_trace(body[i])]
             ELSE body,
     activities |-> UNION {{activity_concept_name(body[i][j]) : j \in 1..Len(body[i])} :
                              i \in 1..Len(body)}]

NoResponse == [code |-> 0, body |-> <<>>]

\* server.apply(req); the third component is the Log_Skeleton it built and
\* the fourth what Log_Skeleton.apply did, kept for inspection.
server_apply(req) ==
    LET noise_para == req.noise_para
        trace_para == req.trace_para
        include_extended_traces ==
            IF trace_para # None THEN strToBool(trace_para[1])
            ELSE EXTENDED_TRACE_DEFAULT
        noise_threshold ==
            IF noise_para.kind = "number" THEN noise_para.value
            ELSE NOISE_THRESHOLD_DEFAULT
        imported == import_http_query(req.body, include_extended_traces)
        activities_ == imported.activities \cup
                       (IF include_extended_traces THEN Sentinels ELSE {})
        lsk_algorithm == Log_Skeleton_init(imported.log, Some(activities_),
                                           noise_threshold, include_extended_traces)
        model_ == Log_Skeleton_apply(lsk_algorithm)
        parameters == (NOISE_THRESHOLD :> lsk_algorithm.noise_threshold)
                      @@ (EXTENDED_TRACE :> include_extended_traces)
                      @@ (IF include_extended_traces
                          THEN ("trace-start" :> activity_concept_name(TRACE_START))
                               @@ ("trace-end" :> activity_concept_name(TRACE_END))
                          ELSE <<>>)
    IN  IF noise_para.kind = "text"          \* float(noise_para) raises
        THEN <<[code |-> BAD_REQUEST, body |-> ("error_msg" :> NOISE_THRESHOLD)],
               NoSkeleton, NoModel>>
        ELSE IF ~req.valid_xes               \* the import raises
        THEN <<[code |-> BAD_REQUEST, body |-> ("error_msg" :> "import")],
               NoSkeleton, NoModel>>
        ELSE IF model_.err # NoError         \* uncaught: the framework's 500
        THEN <<[code |-> 500, body |-> ("error" :> model_.err)],
               lsk_algorithm, model_>>
        ELSE <<[code |-> OK, body |-> model_.res @@ (PARAMETERS :> parameters)],
               lsk_algorithm, model_>>

\* ================================================================ state
VARIABLES traces, universe, pc, raised, rel, result, noise_input, lsk, model, response

vars == <<traces, universe, pc, raised, rel, result, noise_input, lsk, model, response>>

SeqsUpTo(S, n) == UNION {[1..k -> S] : k \in 0..n}

Traces == SeqsUpTo({Event(a) : a \in RealActivities}, MaxTraceLen)
Logs == SeqsUpTo(Traces, MaxTraces)

\* The log is a list that the code only iterates over, adding up or searching
\* its traces; the logs are enumerated up to the order of their traces.
TraceCode(tr) ==
    LET code[i \in 0..Len(tr)] ==
            IF i = 0 THEN 1
            ELSE 3 * code[i - 1] + (IF activity_concept_name(tr[i]) = "A" THEN 1 ELSE 2)
    IN  code[Len(tr)]

OrderedLogs ==
    {l \in Logs : \A i \in 1..(Len(l) - 1) : TraceCode(l[i]) <= TraceCode(l[i + 1])}

\* thresholds in units of 1/ThresholdDen: those of [0, 1], handed to a relation,
\* and the numeric inputs of the orchestrator and of the endpoint
Thresholds == 0..ThresholdDen
NoiseInputs == (0 - 1)..(ThresholdDen + 1)
Number(k) == [kind |-> "number", value |-> k]
NoiseParas == {[kind |-> "none", value |-> 0], [kind |-> "text", value |-> 0]}
              \cup {[kind |-> "number", value |-> k] : k \in NoiseInputs}
TraceParas == {None, Some("TRUE"), Some("yes")}

NoResult == Result(NoError, {}, <<>>)

\* the activities that occur in a log
Occurring(l) ==
    UNION {{activity_concept_name(l[i][j]) : j \in 1..Len(l[i])} : i \in 1..Len(l)}

\* <<the traces are extended, the extensions are to be included>>
Configs == {<<FALSE, FALSE>>, <<TRUE, FALSE>>, <<TRUE, TRUE>>}

\* the arguments of a relation's constructor: every form with an activity
\* universe, and the two forms without one
RelationshipArgs ==
    [is_tuple : BOOLEAN, acts_given : {TRUE}, config : Configs, t : Thresholds]
    \cup [is_tuple : BOOLEAN, acts_given : {FALSE}, config : {<<FALSE, FALSE>>}, t : {0}]

Init ==
    /\ traces \in OrderedLogs
    /\ universe \in {RealActivities, Occurring(traces)}
    /\ pc = "idle"
    /\ raised = NoError
    /\ rel = NoObject
    /\ result = NoResult
    /\ noise_input = Number(0)
    /\ lsk = NoSkeleton
    /\ model = NoModel
    /\ response = NoResponse

Extended(l) == [i \in 1..Len(l) |-> extended_trace(l[i])]

\* r = cls(log, all_activities, t, include_extenstions=ext), or cls((log, acts), ...)
NewRelationship(cls, is_tuple, acts_given, extended, t, ext) ==
    /\ pc = "idle"
    /\ LET l == IF extended THEN Extended(traces) ELSE traces
           acts == IF acts_given
                   THEN Some(universe \cup (IF extended THEN Sentinels ELSE {}))
                   ELSE None
           log_ == IF is_tuple THEN TupleLog(l, acts) ELSE PlainLog(l)
           all_activities == IF is_tuple THEN None ELSE acts
           c == Relationship_init(cls, log_, all_activities, t, DefaultMode(cls), ext)
       IN  /\ rel' = c.self
           /\ raised' = c.err
           /\ pc' = IF c.err = NoError THEN "constructed" ELSE "raised"
    /\ UNCHANGED <<traces, universe, result, noise_input, lsk, model, response>>

\* r.apply()
RelationshipApply ==
    /\ pc = "constructed"
    /\ LET out == apply(rel)
       IN  /\ result' = out
           /\ raised' = out.err
           /\ pc' = IF out.err = NoError THEN "applied" ELSE "raised"
    /\ UNCHANGED <<traces, universe, rel, noise_input, lsk, model, response>>

\* Log_Skeleton(log, all_activities, x, ext)
NewLogSkeleton(extended, x, ext) ==
    /\ pc = "idle"
    /\ lsk' = Log_Skeleton_init(IF extended THEN Extended(traces) ELSE traces,
                                Some(universe \cup (IF extended THEN Sentinels ELSE {})),
                                x, ext)
    /\ noise_input' = Number(x)
    /\ pc' = "lsk_constructed"
    /\ UNCHANGED <<traces, universe, raised, rel, result, model, response>>

\* lsk.apply()
LogSkeletonApply ==
    /\ pc = "lsk_constructed"
    /\ \E out \in {Log_Skeleton_apply(lsk)} :
           /\ model' = out
           /\ raised' = out.err
           /\ pc' = IF out.err = NoError THEN "lsk_applied" ELSE "raised"
    /\ UNCHANGED <<traces, universe, rel, result, noise_input, lsk, response>>

\* one request to /log-skeleton
ServerApply(req) ==
    /\ pc = "idle"
    /\ \E out \in {server_apply(req)} :
           /\ response' = out[1]
           /\ lsk' = out[2]
           /\ model' = out[3]
           /\ raised' = out[3].err
    /\ noise_input' = req.noise_para
    /\ pc' = "responded"
    /\ UNCHANGED <<traces, universe, rel, result>>

Next ==
    \/ \E cls \in Classes, a \in RelationshipArgs :
          NewRelationship(cls, a.is_tuple, a.acts_given, a.config[1], a.t, a.config[2])
    \/ RelationshipApply
    \/ \E config \in Configs, x \in NoiseInputs :
          NewLogSkeleton(config[1], x, config[2])
    \/ LogSkeletonApply
    \/ \E noise_para \in NoiseParas, trace_para \in TraceParas, valid_xes \in BOOLEAN :
          ServerApply([noise_para |-> noise_para, trace_para |-> trace_para,
                       valid_xes |-> valid_xes, body |-> traces])

Spec == Init /\ [][Next]_vars

TypeOK == pc \in {"idle", "constructed", "applied", "raised",
                  "lsk_constructed", "lsk_applied", "responded"}

\* =============================================================== claims
\* the vocabulary of the statements below
HasSentinel(p) == p[1] \in Sentinels \/ p[2] \in Sentinels

NameAt(trace, j) == trace[j][CONCEPT_NAME]

Occurrences(trace, a) == Cardinality({j \in 1..Len(trace) : NameAt(trace, j) = a})

\* C1: with include_extensions false, the result of a pair relation holds no
\* pair of which an element is the start or the end sentinel.
C1_NoSentinelPairWithoutExtensions ==
    (pc = "applied" /\ rel.cls \in PairClasses /\ ~rel.include_extenstions)
        => \A p \in result.pairs : ~HasSentinel(p)

\* C2: on a log of zero traces and a non-empty activity universe, a
\* universally quantified relation, and so Log_Skeleton.apply, raises nothing.
C2_EmptyLogIsDefined ==
    /\ (/\ rel.cls \in ForallClasses
        /\ rel.log = <<>>
        /\ rel.activities # None
        /\ rel.activities # Some({}))
           => raised = NoError
    /\ (/\ pc \in {"lsk_constructed", "lsk_applied", "raised"}
        /\ lsk # NoSkeleton
        /\ lsk.log = <<>>
        /\ lsk.all_activities # Some({}))
           => raised = NoError

\* the candidate pairs of a universally quantified relation: the square of
\* the universe, without its diagonal unless the relation is Equivalence
Candidates(r) ==
    {p \in r.activities[1] \X r.activities[1] : r.cls = "Equivalence" \/ p[1] # p[2]}

\* the traces of r's log on which the extension-filtered predicate holds
SatisfiedTraces(r, p) ==
    {i \in 1..Len(r.log) : apply_to_trace(r, r.log[i], p[1], p[2])}

ForallApplied ==
    /\ pc = "applied"
    /\ rel.cls \in ForallClasses
    /\ Len(rel.log) > 0
    /\ rel.noise_threshold \in Thresholds

\* C3: on a non-empty log and a threshold t of [0, 1], a universally
\* quantified relation retains a candidate pair iff satisfied / traces >= 1 - t;
\* at t = 0 iff the predicate holds on every trace; at t = 1 always.
C3_RatioRule ==
    ForallApplied =>
        /\ result.pairs =
              {p \in Candidates(rel) :
                 Cardinality(SatisfiedTraces(rel, p)) * ThresholdDen
                     >= (ThresholdDen - rel.noise_threshold) * Len(rel.log)}
        /\ rel.noise_threshold = 0 =>
              result.pairs = {p \in Candidates(rel) :
                                SatisfiedTraces(rel, p) = 1..Len(rel.log)}
        /\ rel.noise_threshold = ThresholdDen => result.pairs = Candidates(rel)

\* a pair is retained although a trace violates it, and another is dropped
C3_Witness ==
    /\ ForallApplied
    /\ 0 < rel.noise_threshold /\ rel.noise_threshold < ThresholdDen
    /\ \E p \in result.pairs :
          /\ SatisfiedTraces(rel, p) # 1..Len(rel.log)
          /\ Cardinality(SatisfiedTraces(rel, p)) * ThresholdDen
                = (ThresholdDen - rel.noise_threshold) * Len(rel.log)
    /\ \E p \in Candidates(rel) : p \notin result.pairs

Symmetric(pairs) == \A p \in pairs : <<p[2], p[1]>> \in pairs

EquivalenceApplied == pc = "applied" /\ rel.cls = "Equivalence"

\* C4: the Equivalence result is reflexive over the whole activity universe
\* and symmetric, for every log, threshold and extension setting.
C4_EquivalenceReflexiveSymmetric ==
    EquivalenceApplied =>
        /\ \A a \in rel.activities[1] : <<a, a>> \in result.pairs
        /\ Symmetric(result.pairs)

\* C4 as amended: the Equivalence result is symmetric, and holds (a, a) for
\* every activity a of the universe that is no sentinel, and for the
\* sentinels too when the extensions are included.
C4_EquivalenceReflexiveOffSentinels ==
    EquivalenceApplied =>
        /\ \A a \in rel.activities[1] :
              (rel.include_extenstions \/ a \notin Sentinels) => <<a, a>> \in result.pairs
        /\ Symmetric(result.pairs)

C4_Witness ==
    /\ EquivalenceApplied
    /\ ~rel.include_extenstions
    /\ rel.noise_threshold < ThresholdDen
    /\ Sentinels \subseteq rel.activities[1]
    /\ <<"A", "A">> \in result.pairs
    /\ <<"START", "START">> \notin result.pairs
    /\ <<"A", "B">> \in result.pairs /\ <<"B", "A">> \in result.pairs

NeverTogetherApplied ==
    pc = "applied" /\ rel.cls = "Never_Together" /\ Len(rel.log) > 0

\* C5: on a non-empty log the Never-Together result is symmetric and holds
\* no pair (a, a), at every threshold of [0, 1], the threshold 1 included.
C5_NeverTogetherSymmetricIrreflexive ==
    NeverTogetherApplied =>
        /\ Symmetric(result.pairs)
        /\ \A a \in rel.activities[1] : <<a, a>> \notin result.pairs

\* at threshold 1 every candidate is retained, and the diagonal is not
C5_Witness ==
    /\ NeverTogetherApplied
    /\ rel.noise_threshold = ThresholdDen
    /\ <<"A", "B">> \in result.pairs
    /\ \E i \in 1..Len(rel.log) :
          Occurrences(rel.log[i], "A") > 0 /\ Occurrences(rel.log[i], "B") > 0

BothWays(pairs) == {p \in pairs : <<p[2], p[1]>> \in pairs}

\* C6: the Next-Both-Ways result is the set of the pairs that the
\* Next-One-Way result on the same inputs holds in both directions, in one
\* model computation and for a relation applied on its own.
C6_NextBothWaysOfNextOneWay ==
    /\ pc = "lsk_applied" =>
          /\ model.res["next_both_ways"] = BothWays(model.res["next_one_way"])
          /\ model.res["next_both_ways"] \subseteq model.res["next_one_way"]
          /\ Symmetric(model.res["next_both_ways"])
    /\ (pc = "applied" /\ rel.cls = "Next_Both_Ways") =>
          result.pairs = BothWays(apply([rel EXCEPT !.cls = "Next_One_Way"]).pairs)

\* one pair follows in both directions, another in one direction only
C6_Witness ==
    /\ pc = "lsk_applied"
    /\ model.res["next_both_ways"] # {}
    /\ \E p \in model.res["next_one_way"] : p \notin model.res["next_both_ways"]

\* a1 is immediately followed by a2 somewhere in the trace
DirectlyFollows(trace, a1, a2) ==
    \E j \in 1..(Len(trace) - 1) : NameAt(trace, j) = a1 /\ NameAt(trace, j + 1) = a2

NextOneWayApplied == pc = "applied" /\ rel.cls = "Next_One_Way"

\* C7: (a1, a2) is in the Next-One-Way result iff a1 is immediately followed
\* by a2 in at least one trace and the pair passes the extension filter;
\* the noise threshold has no part in it.
C7_NextOneWayExistential ==
    NextOneWayApplied =>
        result.pairs =
            {p \in rel.activities[1] \X rel.activities[1] :
               /\ \E i \in 1..Len(rel.log) : DirectlyFollows(rel.log[i], p[1], p[2])
               /\ rel.include_extenstions \/ ~HasSentinel(p)}

\* a pair that one trace of two has and that threshold 0 does not remove,
\* beside a pair of two activities of a trace that are not adjacent
C7_Witness ==
    /\ NextOneWayApplied
    /\ rel.noise_threshold = 0
    /\ rel.include_extenstions
    /\ Len(rel.log) = 2
    /\ \E p \in result.pairs :
          \E i \in 1..Len(rel.log) : ~DirectlyFollows(rel.log[i], p[1], p[2])
    /\ <<"START", "END">> \in (rel.activities[1] \X rel.activities[1]) \ result.pairs

\* the occurrences of a in each trace of the log
PerTrace(l, a) == {Occurrences(l[i], a) : i \in 1..Len(l)}

CounterApplied == pc = "applied" /\ rel.cls = "Counter" /\ Len(rel.log) > 0

\* C8: on a non-empty log the counter entry of every activity a has for sum
\* the number of events of a in the log, for min and max the least and the
\* greatest number of a in a trace, and min * traces <= sum <= max * traces;
\* neither the threshold nor include_extensions has a part in it.
C8_CounterEntries ==
    CounterApplied =>
        /\ DOMAIN result.counter = rel.activities[1]
        /\ \A a \in rel.activities[1] :
              LET e == result.counter[a]
                  n == Len(rel.log)
              IN  /\ e.sum = Cardinality({ij \in (1..n) \X (1..(MaxTraceLen + 2)) :
                                  /\ ij[2] <= Len(rel.log[ij[1]])
                                  /\ NameAt(rel.log[ij[1]], ij[2]) = a})
                  /\ e.min \in PerTrace(rel.log, a)
                  /\ e.max \in PerTrace(rel.log, a)
                  /\ \A c \in PerTrace(rel.log, a) : e.min <= c /\ c <= e.max
                  /\ e.min * n <= e.sum
                  /\ e.sum <= e.max * n

\* an activity whose traces differ in its number, and a sentinel counted
\* although the extensions are excluded
C8_Witness ==
    /\ CounterApplied
    /\ ~rel.include_extenstions
    /\ rel.noise_threshold > 0
    /\ {"START", "A"} \subseteq rel.activities[1]
    /\ result.counter["START"].sum = Len(rel.log)
    /\ result.counter["A"].min < result.counter["A"].max
    /\ result.counter["A"].min * Len(rel.log) < result.counter["A"].sum
    /\ result.counter["A"].sum < result.counter["A"].max * Len(rel.log)

\* min(1, max(0, x)) on the numerators
Clamp(x) == IF x < 0 THEN 0 ELSE IF x > ThresholdDen THEN ThresholdDen ELSE x

SkeletonBuilt == lsk # NoSkeleton /\ noise_input.kind = "number"

AllNames == {relationship_name(relationships[i]) : i \in 1..Len(relationships)}

\* C9: for every numeric input x the threshold that the orchestrator exposes,
\* that the endpoint reports and that each relation instance of the model
\* computation holds is min(1, max(0, x)), all seven of them when the
\* computation ends; and no error is due to x: the computation raises only
\* on a log without traces, and the endpoint refuses no number.
C9_ClampedThreshold ==
    /\ SkeletonBuilt =>
        /\ lsk.noise_threshold = Clamp(noise_input.value)
        /\ \A nm \in DOMAIN model.instances :
              model.instances[nm].noise_threshold = Clamp(noise_input.value)
        /\ (pc = "lsk_applied" \/ response.code = OK) =>
              DOMAIN model.instances = AllNames
        /\ response.code = OK =>
              response.body[PARAMETERS][NOISE_THRESHOLD] = Clamp(noise_input.value)
        /\ raised # NoError => lsk.log = <<>>
        /\ response.code \notin {0, OK} => lsk.log = <<>>
    /\ (noise_input.kind = "number" /\ response.code = BAD_REQUEST) =>
          response.body["error_msg"] # NOISE_THRESHOLD

\* an input below 0 and one above 1, each used clamped by all seven relations
C9_Witness ==
    /\ SkeletonBuilt
    /\ pc = "lsk_applied"
    /\ noise_input.value > ThresholdDen
    /\ DOMAIN model.instances = AllNames
    /\ \A nm \in AllNames : model.instances[nm].noise_threshold = ThresholdDen
    /\ model.res["never_together"] # {}

AllActivities == RealActivities \cup Sentinels

\* the places of the trace that hold one of the activities
PlacesOf(trace, activities_) == {j \in 1..Len(trace) : NameAt(trace, j) \in activities_}

\* the first element of the order-preserving projection onto {a1, a2} is a2
FirstOfProjectionIs(trace, a1, a2) ==
    \E j \in PlacesOf(trace, {a1, a2}) :
        /\ NameAt(trace, j) = a2
        /\ \A k \in PlacesOf(trace, {a1, a2}) : j <= k

AlwaysBeforeBuilt == pc \in {"constructed", "applied"} /\ rel.cls = "Always_Before"

\* C11: on every trace and every pair a1 # a2 the Always-Before predicate
\* raises nothing (it takes the first element of no empty projection) and
\* holds iff a1 does not occur in the trace or the first element of the
\* projection of the trace onto {a1, a2} is a2.
C11_AlwaysBeforePredicate ==
    AlwaysBeforeBuilt =>
        \A i \in 1..Len(rel.log) : \A a1, a2 \in AllActivities :
            a1 # a2 =>
                LET outcome == Always_Before_matches(rel.log[i], a1, a2)
                IN  /\ outcome.err = NoError
                    /\ outcome.value <=>
                          \/ Occurrences(rel.log[i], a1) = 0
                          \/ FirstOfProjectionIs(rel.log[i], a1, a2)
                    /\ activity_pair_matches(rel, rel.log[i], a1, a2) = outcome.value

\* one applied log shows the predicate on an empty projection, holding
\* because a2 comes first, and failing because a1 comes first
C11_Witness ==
    /\ pc = "applied"
    /\ rel.cls = "Always_Before"
    /\ \E i \in 1..Len(rel.log) :
          /\ PlacesOf(rel.log[i], {"A", "B"}) = {}
          /\ Always_Before_matches(rel.log[i], "A", "B").value
    /\ \E i \in 1..Len(rel.log) :
          /\ Occurrences(rel.log[i], "A") > 0
          /\ Always_Before_matches(rel.log[i], "A", "B").value
          /\ ~Always_Before_matches(rel.log[i], "B", "A").value

\* the result of the relation r evaluated again at the threshold t
PairsAt(r, t) == apply([r EXCEPT !.noise_threshold = t]).pairs

ForallNames == {"always_before", "always_after", "equivalence", "never_together"}

\* C12: on a non-empty log the result of a universally quantified relation
\* at a threshold is a subset of its result at every greater threshold of
\* [0, 1], for a relation applied alone and in a model computation.
C12_MonotoneInThreshold ==
    /\ ForallApplied =>
          \A t2 \in Thresholds :
              rel.noise_threshold <= t2 => result.pairs \subseteq PairsAt(rel, t2)
    /\ (pc = "lsk_applied" /\ Len(lsk.log) > 0) =>
          \A t2 \in Thresholds : \A nm \in ForallNames :
              lsk.noise_threshold <= t2 =>
                  model.res[nm] \subseteq PairsAt(model.instances[nm], t2)

\* a greater threshold adds pairs to a result that is not empty
C12_Witness ==
    /\ ForallApplied
    /\ result.pairs # {}
    /\ \E t2 \in Thresholds :
          /\ rel.noise_threshold < t2
          /\ t2 < ThresholdDen
          /\ \E p \in PairsAt(rel, t2) : p \notin result.pairs

\* C10: no relation object is constructed with an unset activity universe,
\* whichever form the log argument has.
C10_UnsetUniverseRejectedAtConstruction ==
    rel.cls # "none" => rel.activities # None

====
